---- MODULE Spec2Model ----
(***************************************************************************)
(* Model of analyzer.py: the extraction-and-batching pipeline that walks   *)
(* the syntax tree of every source file under a path, groups the extracted *)
(* elements into batches, embeds each batch with one provider call and     *)
(* upserts the vectors into a remote index.                                *)
(*                                                                         *)
(* Text.  A Python str is a finite sequence of tokens; concatenation       *)
(* (f-strings, +) is \o, the empty string is << >>, and "s in t" is        *)
(* contiguous containment.  Tokens are chosen so that every separator      *)
(* (".", "/", ":") and every ignore pattern is a token of its own.         *)
(***************************************************************************)
EXTENDS Integers, Sequences, FiniteSets, TLC

(***************************************************************************)
(* Bounds of the model.                                                    *)
(***************************************************************************)
\* batch_size is an attribute of the analyzer (analyzer.py:127 sets 20); the
\* model lets it take every value 1..MaxBatchSize so that thresholds are
\* crossed by files of a few elements.
MaxBatchSize == 3
\* Number of consecutive runs of main() against the same remote store.
MaxRuns == 2
\* Number of remote calls (list, create, embed, upsert) that raise, over all
\* the runs.
MaxFaults == 2
\* Length of the texts, and largest max_length, clean_and_truncate_text is
\* applied to on its own.
MaxTextLen == 5

(***************************************************************************)
(* State.                                                                  *)
(***************************************************************************)
VARIABLES
    run,            \* ordinal of the current run of main()
    faults,         \* how many more remote calls may raise
    argc,           \* len(sys.argv)
    path_input,     \* sys.argv[1]
    pc,             \* position of main()
    exit_status,    \* how the process ended: "running" until it has
    stdout,         \* the JSON documents printed to standard output
    analyzer,       \* the CodeAnalyzer instance
    index,          \* the global index handle
    store,          \* the remote vector store
    obs,            \* what the run has done at the providers' boundaries
    all_files,      \* the files main() iterates over
    file_i,         \* position of main()'s loop in all_files
    walk,           \* the calls to process_element the current walk still makes
    analyzed,       \* the files analyze_file was invoked on, in order
    file_obs,       \* the counters at the last entry of analyze_file
    store0,         \* the store as the current run found it
    prev,           \* how the previous run went
    trunc           \* a call of clean_and_truncate_text on its own

vars == <<run, faults, argc, path_input, pc, exit_status, stdout, analyzer, index, store,
          obs, all_files, file_i, walk, analyzed, file_obs, store0, prev, trunc>>

(***************************************************************************)
(* Strings.                                                                *)
(***************************************************************************)
\* Python: pattern in text (contiguous substring)
Contains(text, pattern) ==
    \E i \in 0..(Len(text) - Len(pattern)) :
        \A j \in 1..Len(pattern) : text[i + j] = pattern[j]

\* Python: str(n) for the line numbers that occur in the modelled files
DecimalStr(n) == <<"1", "2", "3", "4", "5", "6", "7", "8", "9">>[n]

\* Python's whitespace, as far as the texts of the model have any
WHITESPACE == {" ", "\n"}

\* Below, CHOOSE y \in {F(v) : v \in {x}} : TRUE is F(x), with x evaluated once
\* however often F uses its argument.

RECURSIVE split(_)
\* text.split(): the maximal runs of non-whitespace, in order
split(text) ==
    IF text = << >> THEN << >>
    ELSE IF Head(text) \in WHITESPACE THEN split(Tail(text))
    ELSE LET cons(rest) ==
                 IF Len(text) > 1 /\ text[2] \notin WHITESPACE
                 THEN <<(<<Head(text)>> \o Head(rest))>> \o Tail(rest)
                 ELSE <<(<<Head(text)>>)>> \o rest
         IN  CHOOSE words \in {cons(rest) : rest \in {split(Tail(text))}} : TRUE

RECURSIVE join(_, _)
\* sep.join(words)
join(sep, words) ==
    IF words = << >> THEN << >>
    ELSE IF Len(words) = 1 THEN Head(words)
    ELSE Head(words) \o sep \o join(sep, Tail(words))

\* text.find(ch, start): the lowest 0-based index >= start of ch, or -1
find(text, ch, start) ==
    LET hits == {i \in start..(Len(text) - 1) : text[i + 1] = ch}
    IN  IF hits = {} THEN -1 ELSE CHOOSE i \in hits : \A j \in hits : i <= j

\* text.rfind(ch, start, end): the highest 0-based index of ch in text[start:end], or -1
rfind(text, ch, start, end) ==
    LET stop == IF end < Len(text) THEN end ELSE Len(text)
        hits == {i \in start..(stop - 1) : text[i + 1] = ch}
    IN  IF hits = {} THEN -1 ELSE CHOOSE i \in hits : \A j \in hits : i >= j

\* text[:end], for 0 <= end
slice_to(text, end) == SubSeq(text, 1, IF end < Len(text) THEN end ELSE Len(text))

\* text[start:], for 0 <= start
slice_from(text, start) == SubSeq(text, start + 1, Len(text))

RECURSIVE lstrip(_)
lstrip(text) ==
    IF text # << >> /\ Head(text) \in WHITESPACE THEN lstrip(Tail(text)) ELSE text

RECURSIVE rstrip(_)
rstrip(text) ==
    IF text # << >> /\ text[Len(text)] \in WHITESPACE
    THEN rstrip(SubSeq(text, 1, Len(text) - 1))
    ELSE text

\* text.strip()
strip(text) == rstrip(lstrip(text))

\* text[i:].startswith(lit), i 0-based
StartsAt(text, lit, i) ==
    i + Len(lit) <= Len(text) /\ SubSeq(text, i + 1, i + Len(lit)) = lit

RECURSIVE InOrder(_, _, _)
\* The literals lits occur in line in this order, from the 0-based position
\* start on
InOrder(lits, line, start) ==
    lits = << >> \/
    \E k \in start..(Len(line) - Len(Head(lits))) :
        /\ StartsAt(line, Head(lits), k)
        /\ InOrder(Tail(lits), line, k + Len(Head(lits)))

RECURSIVE re_scan(_, _, _, _)
\* The substitution of re_sub below, from the 0-based position i on
re_scan(lits, repl, text, i) ==
    IF i >= Len(text) THEN text
    ELSE
        LET nl == find(text, "\n", i)
            line == SubSeq(text, i + 1, nl)       \* text[i:nl], when nl # -1
            matches == /\ nl # -1
                       /\ StartsAt(text, Head(lits), i)
                       /\ InOrder(Tail(lits), line, Len(Head(lits)))
        IN  IF matches
            THEN re_scan(lits, repl, slice_to(text, i) \o repl \o slice_from(text, nl + 1),
                         i + Len(repl))
            ELSE re_scan(lits, repl, text, i + 1)

\* re.sub(pattern, repl, text) for the patterns lits[1] .* lits[2] .* ... \n of
\* the module: a match starts with lits[1], holds the other literals in order
\* and ends with the first newline after its start ("." matches no newline),
\* and matches are replaced from left to right.  A text without a newline has
\* no match.
re_sub(lits, repl, text) ==
    IF find(text, "\n", 0) = -1 THEN text ELSE re_scan(lits, repl, text, 0)

(***************************************************************************)
(* Text normalisation (analyzer.py:97-120).                                *)
(***************************************************************************)
\* The default of max_length
DEFAULT_MAX_LENGTH == 500

\* analyzer.py:103-107: the three substitutions
RemoveBoilerplate(text) ==
    LET no_import(t) == re_sub(<< <<"i", "m", "p", "o", "r", "t">> >>, << >>, t)
        no_from(t) == re_sub(<< <<"f", "r", "o", "m">>, <<"i", "m", "p", "o", "r", "t">> >>,
                             << >>, t)
        no_comment(t) == re_sub(<< <<"#">> >>, <<"\n">>, t)
    IN  CHOOSE text3 \in {no_comment(text2) :
                              text2 \in {no_from(text1) : text1 \in {no_import(text)}}} : TRUE

\* analyzer.py:110-120: the cut at the break point, and the strip
Truncate(text, max_length) ==
    LET by_dot == rfind(text, ".", 0, max_length)
        by_space == rfind(text, " ", 0, max_length)
        break_point == IF by_dot # -1 THEN by_dot
                       ELSE IF by_space # -1 THEN by_space
                       ELSE max_length
    IN  strip(IF Len(text) > max_length THEN slice_to(text, break_point) ELSE text)

clean_and_truncate_text(text, max_length) ==
    LET collapse(t) == join(<<" ">>, split(t))
        truncate(t) == Truncate(t, max_length)
    IN  CHOOSE result \in {truncate(cleaned) :
                               cleaned \in {RemoveBoilerplate(collapsed) :
                                                collapsed \in {collapse(text)}}} : TRUE

(***************************************************************************)
(* The file system the runs see (read-only, unchanged between runs).       *)
(***************************************************************************)
\* os.getcwd()
CWD == <<"/", "w">>

\* a.py
\*   1  """Greeting tools"""
\*   2  import os
\*   3  class Greeter:
\*   4      def hello(self):
\*   5          """Say
\*   6          hello"""
TreeA ==
    [node |-> "Module", doc |-> <<"Greeting", " ", "tools">>, body |-> <<
        [node |-> "Import", names |-> << <<"os">> >>, lineno |-> 2],
        [node |-> "ClassDef", name |-> <<"Greeter">>,
         source |-> <<"class", " ", "Greeter", ":">>,
         doc |-> << >>, lineno |-> 3, body |-> <<
            [node |-> "FunctionDef", name |-> <<"hello">>,
             source |-> <<"def", " ", "hello", "(", "self", ")", ":">>,
             doc |-> <<"Say", "\n", "hello">>,
             lineno |-> 4, body |-> << >>] >>] >>]

\* b.py
\*   1  class Outer:
\*   2      class Inner:
\*   3          def m(self): pass
\*   4      def after(self): pass
TreeB ==
    [node |-> "Module", doc |-> << >>, body |-> <<
        [node |-> "ClassDef", name |-> <<"Outer">>,
         source |-> <<"class", " ", "Outer", ":">>,
         doc |-> << >>, lineno |-> 1, body |-> <<
            [node |-> "ClassDef", name |-> <<"Inner">>,
             source |-> <<"class", " ", "Inner", ":">>,
             doc |-> << >>, lineno |-> 2, body |-> <<
                [node |-> "FunctionDef", name |-> <<"m">>,
                 source |-> <<"def", " ", "m", "(", "self", ")", ":">>,
                 doc |-> << >>, lineno |-> 3, body |-> << >>] >>],
            [node |-> "FunctionDef", name |-> <<"after">>,
             source |-> <<"def", " ", "after", "(", "self", ")", ":">>,
             doc |-> << >>, lineno |-> 4,
             body |-> << >>] >>] >>]

\* deep.py: the expression of line 3 nests deeper than the interpreter's
\* recursion limit allows NodeVisitor to follow (ast.parse accepts it).
\*   1  class K:
\*   2      from pkg import util
\*   3      x = ((((...))))
\*   4      def late(self): pass
TreeDeep ==
    [node |-> "Module", doc |-> << >>, body |-> <<
        [node |-> "ClassDef", name |-> <<"K">>,
         source |-> <<"class", " ", "K", ":">>,
         doc |-> << >>, lineno |-> 1, body |-> <<
            [node |-> "ImportFrom", module |-> <<"pkg">>, names |-> << <<"util">> >>,
             lineno |-> 2],
            [node |-> "Deep"],
            [node |-> "FunctionDef", name |-> <<"late">>,
             source |-> <<"def", " ", "late", "(", "self", ")", ":">>,
             doc |-> << >>, lineno |-> 4,
             body |-> << >>] >>] >>]

\* x = 1
TreePlain == [node |-> "Module", doc |-> << >>, body |-> << [node |-> "Other", body |-> << >>] >>]

\* In the trees, source is the first line of the text a class or function
\* definition has in the file (the head of its source segment).

\* Regular files, by path relative to CWD, in the order the directory walk
\* lists them.  load is what open(), read() and ast.parse make of the file.
FILES == <<
    [path |-> <<"proj", "/", "a", ".py">>, load |-> "ok", tree |-> TreeA],
    [path |-> <<"proj", "/", "node_modules", "/", "x", ".py">>, load |-> "ok", tree |-> TreeA],
    [path |-> <<"proj", "/", "locked", ".py">>, load |-> "read_error", tree |-> TreePlain],
    [path |-> <<"proj", "/", "deep", ".py">>, load |-> "ok", tree |-> TreeDeep],
    [path |-> <<"proj", "/", "bad", ".py">>, load |-> "syntax_error", tree |-> TreePlain],
    [path |-> <<"proj", "/", "notes", ".txt">>, load |-> "ok", tree |-> TreePlain],
    [path |-> <<"proj", "/", "b", ".py">>, load |-> "ok", tree |-> TreeB] >>

\* Directories, by path relative to CWD.
DIRS == { <<"proj">>, <<"proj", "/", "node_modules">> }

\* sys.argv[1] of a run with one argument
PATH_INPUTS == {
    <<"proj">>,
    <<"proj", "/", "b", ".py">>,
    <<"/", "w", "/", "proj", "/", "b", ".py">>,
    <<"proj", "/", "deep", ".py">>,
    <<"proj", "/", "notes", ".txt">>,
    <<"nope">> }

\* len(sys.argv) of a run
ARGCS == {1, 2}

\* os.path.abspath(path): an absolute path is kept, a relative one is joined
\* to the working directory.
abspath(path) == IF path # << >> /\ path[1] = "/" THEN path ELSE CWD \o <<"/">> \o path

\* Path(path).is_file()
is_file(path) == \E i \in 1..Len(FILES) : abspath(FILES[i].path) = abspath(path)

\* Path(path).is_dir()
is_dir(path) == \E d \in DIRS : abspath(d) = abspath(path)

\* Path(path).suffix: the extension of the final component
suffix(path) ==
    IF path # << >> /\ path[Len(path)] \in {".py", ".txt"} THEN <<path[Len(path)]>> ELSE << >>

\* path / rest, for rest the part of a listed file's path below the directory
IsPrefix(p, q) == Len(p) <= Len(q) /\ SubSeq(q, 1, Len(p)) = p

\* path.rglob('*.py'): every regular file below path whose name ends in .py,
\* spelled as path joined with the file's relative part (the spelling of the
\* argument is kept, not made absolute).
rglob(path, ext) ==
    LET under(f) == IsPrefix(abspath(path) \o <<"/">>, abspath(f.path)) /\ suffix(f.path) = ext
        spell(f) == path \o SubSeq(abspath(f.path), Len(abspath(path)) + 1, Len(abspath(f.path)))
        hits == SelectSeq(FILES, under)
    IN  [i \in 1..Len(hits) |-> spell(hits[i])]

FileOf(path) ==
    FILES[CHOOSE i \in 1..Len(FILES) : abspath(FILES[i].path) = abspath(path)]

(***************************************************************************)
(* File filter (analyzer.py:25-43).                                        *)
(***************************************************************************)
IGNORE_PATTERNS ==
    << <<"__pycache__">>, <<"node_modules">>, <<"venv">>, <<".git">>, <<"test">>, <<".vscode">> >>

SUPPORTED_EXTENSIONS == { <<".py">> }

\* A filter that looks at the extension only
should_analyze_file_by_suffix(file_path) == suffix(file_path) \in SUPPORTED_EXTENSIONS

should_analyze_file(file_path) ==
    IF \E i \in 1..Len(IGNORE_PATTERNS) : Contains(file_path, IGNORE_PATTERNS[i])
    THEN FALSE
    ELSE suffix(file_path) \in SUPPORTED_EXTENSIONS

(***************************************************************************)
(* Index name (analyzer.py:45-54).                                         *)
(***************************************************************************)
\* hashlib.md5(s.encode()).hexdigest()[:8]: a fixed function of the string.
\* The digests are symbolic; distinct strings of the model have distinct ones.
md5_hexdigest_8(s) == <<"md5(">> \o s \o <<")[:8]">>

get_project_hash(directory_path) ==
    LET abs_path == abspath(directory_path)
        path_hash == md5_hexdigest_8(abs_path)
    IN  <<"code-index-">> \o path_hash

(***************************************************************************)
(* Syntax-tree walk (analyzer.py:132-161).  The walk is independent of the *)
(* batching, so it is computed as the sequence of calls it makes to        *)
(* process_element; t.raised records an exception that left the walk.      *)
(***************************************************************************)
\* Python: None (differs from every str of the model, the empty one included)
None == <<"<None>">>

\* Python truthiness of an Optional[str]
Truthy(x) == x # None /\ x # << >>

\* ast.get_docstring(node): None when the node has no docstring
get_docstring(node) == IF node.doc = << >> THEN None ELSE node.doc

\* getattr(node, 'lineno', 'unknown') formatted into a str
LinenoStr(node) ==
    IF "lineno" \in DOMAIN node THEN <<DecimalStr(node.lineno)>> ELSE <<"unknown">>

Call(element_type, content, node, name) ==
    [element_type |-> element_type, content |-> content, lineno |-> LinenoStr(node),
     name |-> name]

RECURSIVE visit(_, _)
RECURSIVE visit_children(_, _)

\* NodeVisitor.generic_visit: visit every child node in source order
visit_children(nodes, t) ==
    IF nodes = << >> \/ t.raised THEN t
    ELSE visit_children(Tail(nodes), visit(Head(nodes), t))

generic_visit(node, t) == visit_children(node.body, t)

visit_Module(node, t) ==
    LET docstring == get_docstring(node)
        t1 == IF Truthy(docstring)
              THEN [t EXCEPT !.calls = Append(@, Call(<<"module_docstring">>, docstring, node, None))]
              ELSE t
    IN  generic_visit(node, t1)

visit_ClassDef(node, t) ==
    LET class_name == node.name
        docstring == IF Truthy(get_docstring(node)) THEN get_docstring(node)
                     ELSE <<"Class", " ">> \o class_name
        t1 == [t EXCEPT !.calls = Append(@, Call(<<"class">>, docstring, node, class_name)),
                        !.current_class = class_name]
        t2 == generic_visit(node, t1)
    IN  IF t2.raised THEN t2 ELSE [t2 EXCEPT !.current_class = None]

visit_FunctionDef(node, t) ==
    LET func_name == node.name
        docstring == IF Truthy(get_docstring(node)) THEN get_docstring(node) ELSE func_name
        full_name == IF Truthy(t.current_class)
                     THEN t.current_class \o <<".">> \o func_name
                     ELSE func_name
        t1 == [t EXCEPT !.calls = Append(@, Call(<<"function">>, docstring, node, full_name))]
    IN  generic_visit(node, t1)

visit_Import(node, t) ==
    [t EXCEPT !.calls = @ \o [i \in 1..Len(node.names) |->
                                Call(<<"import">>, node.names[i], node, node.names[i])]]

visit_ImportFrom(node, t) ==
    LET module == IF Truthy(node.module) THEN node.module ELSE << >>
        import_name(alias) == module \o <<".">> \o alias
    IN  [t EXCEPT !.calls = @ \o [i \in 1..Len(node.names) |->
                Call(<<"import">>, import_name(node.names[i]), node, import_name(node.names[i]))]]

\* NodeVisitor.visit: dispatch on the node's class
visit(node, t) ==
    CASE node.node = "Module"      -> visit_Module(node, t)
      [] node.node = "ClassDef"    -> visit_ClassDef(node, t)
      [] node.node = "FunctionDef" -> visit_FunctionDef(node, t)
      [] node.node = "Import"      -> visit_Import(node, t)
      [] node.node = "ImportFrom"  -> visit_ImportFrom(node, t)
      [] node.node = "Deep"        -> [t EXCEPT !.raised = TRUE]   \* RecursionError
      [] OTHER                     -> generic_visit(node, t)

\* self.visit(tree) entered with self.current_class = current_class
Walk(tree, current_class) ==
    visit(tree, [calls |-> << >>, current_class |-> current_class, raised |-> FALSE])

(***************************************************************************)
(* The analyzer and its collaborators.                                     *)
(*                                                                         *)
(* A world w is [self, index, store, obs]:                                 *)
(*   self   the CodeAnalyzer instance (analyzer.py:124-130)                *)
(*   index  the module global set by main (analyzer.py:270-271)            *)
(*   store  the remote vector store: the names of its indexes and the      *)
(*          (index, vector id) pairs it holds; it outlives a run           *)
(*   obs    what the run has done so far, observed at the two providers'   *)
(*          boundaries; it is written, never read, by the program          *)
(***************************************************************************)
\* Outcomes of one flush: both remote calls return, the embedding call
\* raises, or the upsert call raises.
FLUSH_OUTCOMES == {"ok", "embed_error", "upsert_error"}

\* Outcomes of ensure_index_exists' remote calls
PROVISION_OUTCOMES == {"ok", "list_error", "create_error"}

NewAnalyzer(batch_size) ==
    [elements |-> << >>, current_class |-> None, batch_size |-> batch_size,
     pending_elements |-> << >>, total_processed |-> 0, file_path |-> None]

NewObs ==
    [list_calls |-> 0, create_calls |-> 0, embed_calls |-> 0, upsert_calls |-> 0,
     created |-> 0, sent |-> {}, failed |-> {}, upserted |-> {},
     last_flush |-> [batch |-> << >>, outcome |-> "none", vectors |-> << >>]]

\* The objects (element dicts, by identity) of a list of elements
Objs(elems) == {elems[i].obj : i \in 1..Len(elems)}

\* An id salted per process (as one built with hash() or the time would be)
ElementId_salted(file_path, lineno, element_type, safe_name) ==
    file_path \o <<":">> \o lineno \o <<":">> \o element_type \o <<":">> \o safe_name
        \o <<":", DecimalStr(run)>>

\* f"{file_path}:{lineno}:{element_type}:{safe_name}"
ElementId(file_path, lineno, element_type, safe_name) ==
    file_path \o <<":">> \o lineno \o <<":">> \o element_type \o <<":">> \o safe_name

\* client.embeddings.create(input=contents, ...): one provider call
EmbeddingsCreate(o, batch) ==
    [o EXCEPT !.embed_calls = @ + 1, !.sent = @ \cup Objs(batch)]

\* The vector the provider computes for a text: a fixed function of the text.
\* The vectors are symbolic; distinct texts of the model have distinct ones.
Embedding(text) == <<"embedding(">> \o text \o <<")">>

\* The .data of the provider's response: one embedding per input, in input order
EmbeddingsData(contents) == [i \in 1..Len(contents) |-> [embedding |-> Embedding(contents[i])]]

\* A pairing that runs through the embeddings from the last to the first
ZipVectors_reversed(pending, embeddings) ==
    LET n == IF Len(pending) < Len(embeddings) THEN Len(pending) ELSE Len(embeddings)
    IN  [i \in 1..n |-> [id |-> pending[i].id,
                         values |-> embeddings[Len(embeddings) + 1 - i].embedding,
                         metadata |-> pending[i].metadata]]

\* analyzer.py:209-215: zip(self.pending_elements, embeddings), one vector a pair
ZipVectors(pending, embeddings) ==
    LET n == IF Len(pending) < Len(embeddings) THEN Len(pending) ELSE Len(embeddings)
    IN  [i \in 1..n |-> [id |-> pending[i].id,
                         values |-> embeddings[i].embedding,
                         metadata |-> pending[i].metadata]]

\* index.upsert(vectors=vectors) returning normally: insert or overwrite by id
Upsert(st, ix, vectors) ==
    [st EXCEPT !.vectors = @ \cup {<<ix, vectors[i].id>> : i \in 1..Len(vectors)}]

\* A handler that counts the batch as processed
process_batch_except_counts(w, o) ==
    [w EXCEPT !.obs = o, !.self.total_processed = @ + Len(w.self.pending_elements)]

\* A handler that also keeps the batch for the report (as a "finally" would)
process_batch_except_keeps(w, o) ==
    [w EXCEPT !.obs = o, !.self.elements = @ \o w.self.pending_elements]

\* analyzer.py:233-235: the handler of an exception raised in the flush; it
\* logs and returns.  o is what the run had done when the call raised.
process_batch_except(w, o) == [w EXCEPT !.obs = o]

\* A commit that leaves the batch in the pending buffer
process_batch_commit_keeps_pending(w, vectors, o) ==
    [w EXCEPT !.store = Upsert(w.store, w.index, vectors),
              !.obs = [o EXCEPT !.upserted = @ \cup Objs(w.self.pending_elements)],
              !.self.total_processed = @ + Len(vectors),
              !.self.elements = @ \o w.self.pending_elements]

\* A commit that assigns the batch to the result list instead of extending it
process_batch_commit_assigns(w, vectors, o) ==
    [w EXCEPT !.store = Upsert(w.store, w.index, vectors),
              !.obs = [o EXCEPT !.upserted = @ \cup Objs(w.self.pending_elements)],
              !.self.total_processed = @ + Len(vectors),
              !.self.elements = w.self.pending_elements,
              !.self.pending_elements = << >>]

\* analyzer.py:217-231: the upsert has returned.  The progress report
\* (analyzer.py:223-225) changes no state; its elapsed_time is positive, two
\* remote round trips having completed since start_time was taken.
process_batch_commit(w, vectors, o) ==
    [w EXCEPT !.store = Upsert(w.store, w.index, vectors),
              !.obs = [o EXCEPT !.upserted = @ \cup Objs(w.self.pending_elements)],
              !.self.total_processed = @ + Len(vectors),
              !.self.elements = @ \o w.self.pending_elements,
              !.self.pending_elements = << >>]

\* analyzer.py:194-235
process_batch(w, outcome) ==
    IF w.self.pending_elements = << >> THEN w
    ELSE
        LET pending == w.self.pending_elements
            flushed == [batch |-> pending, outcome |-> outcome, vectors |-> << >>]
            obs1 == [EmbeddingsCreate(w.obs, pending) EXCEPT !.last_flush = flushed]
        IN  IF outcome = "embed_error"
            THEN process_batch_except(w, [obs1 EXCEPT !.failed = @ \cup Objs(pending)])
            ELSE
                LET contents == [i \in 1..Len(pending) |->
                                    clean_and_truncate_text(pending[i].content,
                                                            DEFAULT_MAX_LENGTH)]
                    embeddings == EmbeddingsData(contents)
                    \* analyzer.py:217-231, with the vectors built
                    upsert(vectors) ==
                        LET obs2 == [obs1 EXCEPT !.upsert_calls = @ + 1,
                                                 !.last_flush.vectors = vectors]
                        IN  IF outcome = "upsert_error"
                            THEN process_batch_except(
                                     w, [obs2 EXCEPT !.failed = @ \cup Objs(pending)])
                            ELSE process_batch_commit(w, vectors, obs2)
                IN  CHOOSE w1 \in {upsert(vectors) :
                                       vectors \in {ZipVectors(pending, embeddings)}} : TRUE

\* analyzer.py:163-192; outcome is the outcome of the flush, if one happens
process_element(w, element_type, content, lineno, name, outcome) ==
    IF content = << >> \/ content = None THEN w
    ELSE
        LET safe_name == IF name # None THEN name ELSE element_type
            element_data ==
                [id |-> ElementId(w.self.file_path, lineno, element_type, safe_name),
                 content |-> content,
                 metadata |-> [type |-> element_type, name |-> safe_name,
                               file_path |-> w.self.file_path, line_number |-> lineno,
                               content |-> content],
                 obj |-> w.obs.created + 1]     \* identity of the dict
            w1 == [w EXCEPT !.self.pending_elements = Append(@, element_data),
                            !.obs.created = @ + 1]
        IN  IF Len(w1.self.pending_elements) >= w1.self.batch_size
            THEN process_batch(w1, outcome)
            ELSE w1

\* ensure_index_exists with a handler that logs and does not re-raise
ensure_index_exists_swallows(st, o, index_name, outcome) ==
    LET obs1 == [o EXCEPT !.list_calls = @ + 1]
    IN  IF outcome = "list_error"
        THEN [store |-> st, obs |-> obs1, raised |-> FALSE]
        ELSE
            LET active_indexes == st.indexes
            IN  IF index_name \notin active_indexes
                THEN LET obs2 == [obs1 EXCEPT !.create_calls = @ + 1]
                     IN  IF outcome = "create_error"
                         THEN [store |-> st, obs |-> obs2, raised |-> FALSE]
                         ELSE [store |-> [st EXCEPT !.indexes = @ \cup {index_name}],
                               obs |-> obs2, raised |-> FALSE]
                ELSE [store |-> st, obs |-> obs1, raised |-> FALSE]

\* ensure_index_exists that creates without looking at the list
ensure_index_exists_creates(st, o, index_name, outcome) ==
    LET obs1 == [o EXCEPT !.list_calls = @ + 1]
    IN  IF outcome = "list_error"
        THEN [store |-> st, obs |-> obs1, raised |-> TRUE]
        ELSE
            LET obs2 == [obs1 EXCEPT !.create_calls = @ + 1]
            IN  IF outcome = "create_error"
                THEN [store |-> st, obs |-> obs2, raised |-> TRUE]
                ELSE [store |-> [st EXCEPT !.indexes = @ \cup {index_name}],
                      obs |-> obs2, raised |-> FALSE]

\* analyzer.py:56-80; returns the store, the observations and whether the
\* call returned normally (raised = FALSE) or re-raised the exception.
ensure_index_exists(st, o, index_name, outcome) ==
    LET obs1 == [o EXCEPT !.list_calls = @ + 1]
    IN  IF outcome = "list_error"
        THEN [store |-> st, obs |-> obs1, raised |-> TRUE]
        ELSE
            LET active_indexes == st.indexes
            IN  IF index_name \notin active_indexes
                THEN LET obs2 == [obs1 EXCEPT !.create_calls = @ + 1]
                     IN  IF outcome = "create_error"
                         THEN [store |-> st, obs |-> obs2, raised |-> TRUE]
                         ELSE [store |-> [st EXCEPT !.indexes = @ \cup {index_name}],
                               obs |-> obs2, raised |-> FALSE]
                ELSE [store |-> st, obs |-> obs1, raised |-> FALSE]

(***************************************************************************)
(* Runs.                                                                   *)
(***************************************************************************)
World == [self |-> analyzer, index |-> index, store |-> store, obs |-> obs]

NoWalk == [calls |-> << >>, current_class |-> None, raised |-> FALSE]

NoFile == [entered |-> FALSE, path |-> None, pending0 |-> 0, embed0 |-> 0, created0 |-> 0,
           raised |-> FALSE]

\* No call of clean_and_truncate_text outside process_batch
NoCall == [text |-> << >>, max_length |-> DEFAULT_MAX_LENGTH, result |-> << >>, done |-> TRUE]

\* The command lines of a run: a wrong argument count, or one path
ArgvChoices == {<<a, p>> \in ARGCS \X (PATH_INPUTS \cup {None}) : (a = 2) <=> (p # None)}

Init ==
    /\ run = 1
    /\ faults = MaxFaults
    /\ \E av \in ArgvChoices : argc = av[1] /\ path_input = av[2]
    /\ pc = "start"
    /\ exit_status = "running"
    /\ stdout = << >>
    /\ \E b \in 1..MaxBatchSize : analyzer = NewAnalyzer(b)
    /\ index = None
    /\ store = [indexes |-> {}, vectors |-> {}]
    /\ obs = NewObs
    /\ all_files = << >>
    /\ file_i = 1
    /\ walk = NoWalk
    /\ analyzed = << >>
    /\ file_obs = NoFile
    /\ store0 = store
    /\ prev = [ran |-> FALSE, path_input |-> None, provisioned |-> FALSE, reported |-> FALSE,
               failed |-> FALSE, ids |-> {}]
    /\ trunc = NoCall

Exit(status) == pc' = "exited" /\ exit_status' = status

\* The process's exit code: sys.exit(1) and an uncaught exception give 1
ExitCode(status) == IF status = "ok" THEN 0 ELSE 1

\* The vector ids of a list of elements
VectorIds(elems) == {elems[i].id : i \in 1..Len(elems)}

\* Where analyze_file returns to: main's loop, or the client that called it
\* when main() is not running (run = 0)
Caller == IF run = 0 THEN "client" ELSE "loop"

\* The outcomes a remote call may have now
MayRaise(outcomes) == IF faults > 0 THEN outcomes ELSE {"ok"}

\* The flush counted by o2 and not by o1, if there is one, raised
FlushRaised(o1, o2) == o2.embed_calls > o1.embed_calls /\ o2.last_flush.outcome # "ok"

(***************************************************************************)
(* main() (analyzer.py:256-296), one action per stretch between the points *)
(* where an outcome is drawn or the process may end.                       *)
(***************************************************************************)
\* analyzer.py:257-259
CheckArgs ==
    /\ pc = "start"
    /\ IF argc # 2 THEN Exit("usage") ELSE pc' = "provision" /\ UNCHANGED exit_status
    /\ UNCHANGED <<trunc, run, faults, argc, path_input, stdout, analyzer, index, store, obs,
                   all_files, file_i, walk, analyzed, file_obs, store0, prev>>

\* analyzer.py:261-273: index name, ensure_index_exists, pc.Index, CodeAnalyzer()
Provision ==
    /\ pc = "provision"
    /\ \E outcome \in MayRaise(PROVISION_OUTCOMES) :
        LET index_name == get_project_hash(path_input)
            r == ensure_index_exists(store, obs, index_name, outcome)
        IN  /\ store' = r.store
            /\ obs' = r.obs
            /\ faults' = IF r.raised THEN faults - 1 ELSE faults
            /\ IF r.raised
               THEN Exit("provisioning_error") /\ UNCHANGED index
               ELSE pc' = "classify" /\ index' = index_name /\ UNCHANGED exit_status
    /\ UNCHANGED <<trunc, run, argc, path_input, stdout, analyzer, all_files, file_i, walk,
                   analyzed, file_obs, store0, prev>>

\* A path that is neither file nor directory falls through to the report
ClassifyPath_falls_through ==
    /\ pc = "classify"
    /\ all_files' = IF is_file(path_input) THEN <<path_input>>
                    ELSE IF is_dir(path_input) THEN rglob(path_input, <<".py">>)
                    ELSE << >>
    /\ pc' = "loop"
    /\ file_i' = 1
    /\ UNCHANGED <<trunc, run, faults, argc, path_input, exit_status, stdout, analyzer, index, store,
                   obs, walk, analyzed, file_obs, store0, prev>>

\* analyzer.py:275-286, 291-293: the files to go through.  A single file is a
\* list of one.
ClassifyPath ==
    /\ pc = "classify"
    /\ IF is_file(path_input)
       THEN all_files' = <<path_input>> /\ pc' = "loop" /\ UNCHANGED exit_status
       ELSE IF is_dir(path_input)
       THEN all_files' = rglob(path_input, <<".py">>) /\ pc' = "loop"
            /\ UNCHANGED exit_status
       ELSE Exit("invalid_path") /\ UNCHANGED all_files
    /\ file_i' = 1
    /\ UNCHANGED <<trunc, run, faults, argc, path_input, stdout, analyzer, index, store, obs, walk,
                   analyzed, file_obs, store0, prev>>

\* analyzer.py:278 / 288: a file the filter rejects is passed over
SkipFile ==
    /\ pc = "loop"
    /\ file_i <= Len(all_files)
    /\ ~should_analyze_file(all_files[file_i])
    /\ file_i' = file_i + 1
    /\ UNCHANGED <<trunc, run, faults, argc, path_input, pc, exit_status, stdout, analyzer, index,
                   store, obs, all_files, walk, analyzed, file_obs, store0, prev>>

(***************************************************************************)
(* analyze_file (analyzer.py:237-254), entered from main's loop            *)
(* (analyzer.py:277-279, 287-290).                                         *)
(***************************************************************************)
\* analyze_file without its exception handler: the exception ends main()
AnalyzeFileEnter_uncaught ==
    /\ pc = "loop"
    /\ file_i <= Len(all_files)
    /\ should_analyze_file(all_files[file_i])
    /\ LET file_path == all_files[file_i]
           entry == [entered |-> TRUE, path |-> file_path,
                     pending0 |-> Len(analyzer.pending_elements),
                     embed0 |-> obs.embed_calls, created0 |-> obs.created,
                     raised |-> FALSE]
       IN  /\ analyzed' = Append(analyzed, file_path)
           /\ IF FileOf(file_path).load # "ok"
              THEN /\ file_obs' = [entry EXCEPT !.raised = TRUE]
                   /\ Exit("uncaught_exception")
                   /\ UNCHANGED <<file_i, analyzer, walk>>
              ELSE /\ file_obs' = entry
                   /\ analyzer' = [analyzer EXCEPT !.file_path = file_path]
                   /\ walk' = Walk(FileOf(file_path).tree, analyzer.current_class)
                   /\ pc' = "visit"
                   /\ UNCHANGED <<file_i, exit_status>>
    /\ UNCHANGED <<trunc, run, faults, argc, path_input, stdout, index, store, obs,
                   all_files, store0, prev>>

\* analyzer.py:237-246: the call, up to the start of the walk: filter, open,
\* read, parse.
analyze_file(file_path) ==
    /\ LET entry == [entered |-> TRUE, path |-> file_path,
                     pending0 |-> Len(analyzer.pending_elements),
                     embed0 |-> obs.embed_calls, created0 |-> obs.created,
                     raised |-> FALSE]
       IN  /\ analyzed' = Append(analyzed, file_path)
           /\ IF ~should_analyze_file(file_path)
              THEN \* analyzer.py:238-239
                   /\ file_obs' = entry
                   /\ file_i' = file_i + 1
                   /\ UNCHANGED <<pc, analyzer, walk>>
              ELSE IF FileOf(file_path).load # "ok"
              THEN \* open, read or ast.parse raised: analyzer.py:252-254
                   /\ file_obs' = [entry EXCEPT !.raised = TRUE]
                   /\ file_i' = file_i + 1
                   /\ UNCHANGED <<pc, analyzer, walk>>
              ELSE /\ file_obs' = entry
                   /\ analyzer' = [analyzer EXCEPT !.file_path = file_path]
                   /\ walk' = Walk(FileOf(file_path).tree, analyzer.current_class)
                   /\ pc' = "visit"
                   /\ UNCHANGED file_i
    /\ UNCHANGED <<trunc, run, faults, argc, path_input, exit_status, stdout, index, store, obs,
                   all_files, store0, prev>>

\* analyzer.py:277-279, 287-290: main calls analyze_file on a file that passes
\* the filter
AnalyzeFileEnter ==
    /\ pc = "loop"
    /\ file_i <= Len(all_files)
    /\ should_analyze_file(all_files[file_i])
    /\ analyze_file(all_files[file_i])

\* The walk's next call of process_element, with the flush it may trigger.
VisitStep ==
    /\ pc = "visit"
    /\ walk.calls # << >>
    /\ \E outcome \in MayRaise(FLUSH_OUTCOMES) :
        LET c == Head(walk.calls)
            w == process_element(World, c.element_type, c.content, c.lineno, c.name, outcome)
        IN  /\ analyzer' = w.self
            /\ store' = w.store
            /\ obs' = w.obs
            /\ faults' = IF FlushRaised(obs, w.obs) THEN faults - 1 ELSE faults
    /\ walk' = [walk EXCEPT !.calls = Tail(@)]
    /\ UNCHANGED <<trunc, run, argc, path_input, pc, exit_status, stdout, index, all_files,
                   file_i, analyzed, file_obs, store0, prev>>

\* The end of the walk: the flush of the remainder (analyzer.py:248-250), or
\* the handler of the exception that left the walk (analyzer.py:252-254).
\* self.current_class is what the walk left it at.
AnalyzeFileExit ==
    /\ pc = "visit"
    /\ walk.calls = << >>
    /\ LET w0 == [World EXCEPT !.self.current_class = walk.current_class]
       IN  IF walk.raised
           THEN /\ analyzer' = w0.self
                /\ file_obs' = [file_obs EXCEPT !.raised = TRUE]
                /\ UNCHANGED <<store, obs, faults>>
           ELSE /\ \E outcome \in MayRaise(FLUSH_OUTCOMES) :
                    LET w == IF w0.self.pending_elements # << >>
                             THEN process_batch(w0, outcome)
                             ELSE w0
                    IN  /\ analyzer' = w.self
                        /\ store' = w.store
                        /\ obs' = w.obs
                        /\ faults' = IF FlushRaised(obs, w.obs) THEN faults - 1 ELSE faults
                /\ UNCHANGED file_obs
    /\ walk' = NoWalk
    /\ pc' = Caller
    /\ file_i' = file_i + 1
    /\ UNCHANGED <<trunc, run, argc, path_input, exit_status, stdout, index, all_files,
                   analyzed, store0, prev>>

\* analyzer.py:295-296
Report ==
    /\ pc = "loop"
    /\ file_i > Len(all_files)
    /\ stdout' = Append(stdout, analyzer.elements)
    /\ Exit("ok")
    /\ UNCHANGED <<trunc, run, faults, argc, path_input, analyzer, index, store, obs, all_files,
                   file_i, walk, analyzed, file_obs, store0, prev>>

\* The program is run again, against the store the earlier runs left.
NextRun ==
    /\ pc = "exited"
    /\ run < MaxRuns
    /\ run' = run + 1
    /\ \E av \in ArgvChoices : argc' = av[1] /\ path_input' = av[2]
    /\ pc' = "start"
    /\ exit_status' = "running"
    /\ stdout' = << >>
    /\ analyzer' = NewAnalyzer(analyzer.batch_size)
    /\ index' = None
    /\ obs' = NewObs
    /\ all_files' = << >>
    /\ file_i' = 1
    /\ walk' = NoWalk
    /\ analyzed' = << >>
    /\ file_obs' = NoFile
    /\ store0' = store
    /\ prev' = [ran |-> TRUE, path_input |-> path_input, provisioned |-> index # None,
                reported |-> stdout # << >>, failed |-> obs.failed # {},
                ids |-> VectorIds(analyzer.elements)]
    /\ UNCHANGED <<trunc, faults, store>>

\* One step of the running process
RunStep ==
    \/ CheckArgs
    \/ Provision
    \/ ClassifyPath
    \/ SkipFile
    \/ AnalyzeFileEnter
    \/ VisitStep
    \/ AnalyzeFileExit
    \/ Report

Next == RunStep \/ NextRun

Spec == Init /\ [][Next]_vars

\* One run of main(), from an empty store.  The program is sequential and
\* nothing it waits for is modelled as blocking, so the interpreter executes
\* the next step of a process that has not ended.
FairSpec == Init /\ [][RunStep]_vars /\ WF_vars(RunStep)

(***************************************************************************)
(* analyze_file called by a client of the module instead of main(): run is *)
(* 0, pc is "client" between the calls, all_files are the paths the client *)
(* passes, one call after the other, and nothing has filtered them.        *)
(***************************************************************************)
\* The argument lists of one or two calls, over the files of the file system
DIRECT_CALLS ==
    LET paths == {FILES[i].path : i \in 1..Len(FILES)}
    IN  {<<p>> : p \in paths} \cup {<<p, q>> : p \in paths, q \in paths}

DirectInit ==
    /\ run = 0
    /\ faults = MaxFaults
    /\ argc = 1
    /\ path_input = None
    /\ pc = "client"
    /\ exit_status = "running"
    /\ stdout = << >>
    /\ \E b \in 1..MaxBatchSize : analyzer = NewAnalyzer(b)
    /\ index = get_project_hash(<<"proj">>)
    /\ store = [indexes |-> {index}, vectors |-> {}]
    /\ obs = NewObs
    /\ all_files \in DIRECT_CALLS
    /\ file_i = 1
    /\ walk = NoWalk
    /\ analyzed = << >>
    /\ file_obs = NoFile
    /\ store0 = store
    /\ prev = [ran |-> FALSE, path_input |-> None, provisioned |-> FALSE, reported |-> FALSE,
               failed |-> FALSE, ids |-> {}]
    /\ trunc = NoCall

\* The client's next call of analyze_file
AnalyzeFileDirect ==
    /\ pc = "client"
    /\ file_i <= Len(all_files)
    /\ analyze_file(all_files[file_i])

\* One run of main() or, from DirectInit, direct calls of analyze_file
FilterInit == Init \/ DirectInit

FilterNext == RunStep \/ AnalyzeFileDirect

FilterSpec == FilterInit /\ [][FilterNext]_vars

(***************************************************************************)
(* clean_and_truncate_text (analyzer.py:97-120) called on its own, on      *)
(* every text of up to MaxTextLen characters.                              *)
(***************************************************************************)
\* The characters of the texts: a letter, the period, the two kinds of
\* whitespace that the collapse tells apart from the space it writes
CHARS == {"a", ".", " ", "\n"}

TEXTS == UNION {[1..k -> CHARS] : k \in 0..MaxTextLen}

TextInit ==
    /\ run = 1
    /\ faults = 0
    /\ argc = 1
    /\ path_input = None
    /\ pc = "text"
    /\ exit_status = "running"
    /\ stdout = << >>
    /\ analyzer = NewAnalyzer(1)
    /\ index = None
    /\ store = [indexes |-> {}, vectors |-> {}]
    /\ obs = NewObs
    /\ all_files = << >>
    /\ file_i = 1
    /\ walk = NoWalk
    /\ analyzed = << >>
    /\ file_obs = NoFile
    /\ store0 = store
    /\ prev = [ran |-> FALSE, path_input |-> None, provisioned |-> FALSE, reported |-> FALSE,
               failed |-> FALSE, ids |-> {}]
    /\ \E text \in TEXTS, max_length \in 1..MaxTextLen :
           trunc = [text |-> text, max_length |-> max_length, result |-> << >>, done |-> FALSE]

CleanAndTruncate ==
    /\ pc = "text"
    /\ ~trunc.done
    /\ trunc' = [trunc EXCEPT !.result = clean_and_truncate_text(trunc.text, trunc.max_length),
                              !.done = TRUE]
    /\ UNCHANGED <<run, faults, argc, path_input, pc, exit_status, stdout, analyzer, index,
                   store, obs, all_files, file_i, walk, analyzed, file_obs, store0, prev>>

TextSpec == TextInit /\ [][CleanAndTruncate]_vars

(***************************************************************************)
(* Properties.                                                             *)
(***************************************************************************)
\* analyze_file has returned to main's loop
Returned == pc = "loop" /\ file_obs.entered

\* The step is, or contains, a flush: one embedding-provider call was issued
FlushHappened == obs'.embed_calls > obs.embed_calls

\* ceil(n / d)
CeilDiv(n, d) == (n + d - 1) \div d

\* C1: a file that yields N elements, analyzed from an empty pending buffer
\* with batch size B, costs ceil(N / B) embedding-provider calls, and the last
\* of them carries N mod B texts (B when B divides N).
C1_BatchCount ==
    (Returned /\ ~file_obs.raised /\ file_obs.pending0 = 0) =>
        LET N == obs.created - file_obs.created0
            B == analyzer.batch_size
            calls == obs.embed_calls - file_obs.embed0
        IN  /\ calls = CeilDiv(N, B)
            /\ N > 0 => Len(obs.last_flush.batch) = (IF N % B = 0 THEN B ELSE N % B)

\* C2: no element is part of the input of more than one embedding-provider
\* call, whatever calls fail.
C2_EmbeddedAtMostOnce ==
    [][FlushHappened => Objs(obs'.last_flush.batch) \cap obs.sent = {}]_vars

\* C3: a flush appends to the result list either its whole batch or nothing,
\* and the whole batch exactly when the batch's upsert call returned.
C3_FlushAtomic ==
    [][FlushHappened =>
        LET batch == obs'.last_flush.batch
        IN  IF obs'.last_flush.outcome = "ok"
            THEN analyzer'.elements = analyzer.elements \o batch
            ELSE analyzer'.elements = analyzer.elements]_vars

\* A flush whose upsert call raised, after an earlier flush went through
C3_Witness ==
    /\ obs.last_flush.outcome = "upsert_error"
    /\ Len(obs.last_flush.batch) > 1
    /\ analyzer.elements # << >>

\* C4: the elements of a batch whose embedding or upsert call raised are
\* dropped: the flush leaves total_processed and the result list as they were
\* and the pending buffer empty, and no later flush carries any of them.
C4_FailedBatchDropped ==
    [][FlushHappened =>
        /\ obs'.last_flush.outcome # "ok" =>
            /\ analyzer'.total_processed = analyzer.total_processed
            /\ analyzer'.elements = analyzer.elements
            /\ analyzer'.pending_elements = << >>
        /\ Objs(obs'.last_flush.batch) \cap obs.failed = {}]_vars

\* C5: the result list, and the report printed from it, holds exactly the
\* elements of the batches whose upsert call returned, and each of them is a
\* record of the index.
C5_ResultsAreUpserted ==
    /\ Objs(analyzer.elements) = obs.upserted
    /\ Len(analyzer.elements) = Cardinality(obs.upserted)
    /\ \A i \in 1..Len(analyzer.elements) :
           <<index, analyzer.elements[i].id>> \in store.vectors
    /\ exit_status = "ok" => stdout = <<analyzer.elements>>

\* A partial report: some batch went through, another did not
C5_Witness ==
    /\ exit_status = "ok"
    /\ Len(analyzer.elements) > analyzer.batch_size
    /\ obs.created > Len(analyzer.elements)
    /\ obs.failed # {}

\* The files of all_files the filter lets through, in order
Filtered(files) == SelectSeq(files, should_analyze_file)

\* C6: a failure while one file is analyzed does not stop the run: analyze_file
\* is invoked on the files that pass the filter, in the order of enumeration,
\* and in the end on every one of them.
C6_EveryFileAnalyzed ==
    /\ [](pc \in {"loop", "visit"} =>
            analyzed = Filtered(SubSeq(all_files, 1, IF pc = "loop" THEN file_i - 1 ELSE file_i)))
    /\ (pc = "loop" ~> (pc = "exited" /\ analyzed = Filtered(all_files)))

\* A directory run that met a read error, a walk error, a syntax error and a
\* failed flush, and still went through all five files that pass the filter
C6_Witness ==
    /\ pc = "exited"
    /\ Len(analyzed) = 5
    /\ analyzed = Filtered(all_files)
    /\ obs.failed # {}

\* C7 as stated: a run prints the JSON report exactly once unless provisioning
\* failed, and then it prints none.
C7_ReportUnlessProvisioningFailed ==
    pc = "exited" =>
        IF exit_status = "provisioning_error" THEN stdout = << >> ELSE Len(stdout) = 1

\* C7, amended: the run prints the JSON report exactly once, after the last
\* file and whatever failed in files, batches or elements, unless provisioning
\* failed or the command line was rejected (argument count, path neither file
\* nor directory); those runs end with a non-zero exit code and no JSON.
C7_ReportUnlessAbortedOrRejected ==
    /\ [](LET rejected == argc # 2 \/ (~is_file(path_input) /\ ~is_dir(path_input))
              provisioned == index # None    \* ensure_index_exists returned
          IN  /\ Len(stdout) <= 1
              /\ stdout # << >> =>
                    /\ pc = "exited" /\ ExitCode(exit_status) = 0
                    /\ file_i > Len(all_files)
                    /\ stdout = <<analyzer.elements>>
                    /\ provisioned /\ ~rejected
              /\ pc = "exited" =>
                    /\ (rejected \/ ~provisioned) => ExitCode(exit_status) # 0 /\ stdout = << >>
                    /\ (provisioned /\ ~rejected) => Len(stdout) = 1)
    /\ (pc = "loop" ~> stdout # << >>)

\* A partial report, printed after file errors and with the last batch lost
C7_Witness ==
    /\ Len(stdout) = 1
    /\ stdout[1] # << >>
    /\ Len(stdout[1]) < obs.created
    /\ Len(analyzed) = 5

\* C8: no embedding call and no upsert call is made before ensure_index_exists
\* has returned normally, and none at all in a run that provisioning aborts.
C8_ProvisioningFirst ==
    /\ (obs.embed_calls > 0 \/ obs.upsert_calls > 0 \/ pc \in {"classify", "loop", "visit"}) =>
            /\ index = get_project_hash(path_input)
            /\ index \in store.indexes
    /\ exit_status = "provisioning_error" => obs.embed_calls = 0 /\ obs.upsert_calls = 0

\* A run aborted by a failed index creation
C8_Witness ==
    /\ exit_status = "provisioning_error"
    /\ obs.create_calls = 1
    /\ obs.embed_calls = 0

C10_SecondRunOverwrites ==
    ( /\ exit_status = "ok" /\ obs.failed = {}
      /\ prev.reported /\ ~prev.failed
      /\ prev.path_input = path_input ) =>
        /\ VectorIds(analyzer.elements) = prev.ids
        /\ store.vectors = store0.vectors

\* A second failure-free run over the directory
C10_Witness ==
    /\ exit_status = "ok" /\ obs.failed = {}
    /\ prev.reported /\ ~prev.failed
    /\ prev.path_input = path_input
    /\ Len(analyzer.elements) > 4

\* The elements the analyzer holds: the result list, then the pending buffer
Held == analyzer.elements \o analyzer.pending_elements

RECURSIVE LexicalNames(_, _, _)
\* The names the functions of nodes have by their lexical position, as pairs
\* <<line, name>>: class is the class whose body nodes is (None in another
\* body), free says that nodes is the module's body or the body of a function
\* nested in nothing but module-level functions.  A function in neither
\* position (nested in a method) is not in the set.
LexicalNames(nodes, class, free) ==
    IF nodes = << >> THEN {}
    ELSE
        LET n == Head(nodes)
            here == CASE n.node = "FunctionDef" ->
                            (IF class # None
                             THEN {<<LinenoStr(n), class \o <<".">> \o n.name>>}
                             ELSE IF free THEN {<<LinenoStr(n), n.name>>} ELSE {})
                            \cup LexicalNames(n.body, None, free /\ class = None)
                      [] n.node = "ClassDef" -> LexicalNames(n.body, n.name, FALSE)
                      [] "body" \in DOMAIN n -> LexicalNames(n.body, None, free)
                      [] OTHER -> {}
        IN  here \cup LexicalNames(Tail(nodes), class, free)

\* C11: a function defined directly in the body of a class Foo is named
\* Foo.funcname, whatever precedes it in that body; a function at module level,
\* or nested in module-level functions only, is named funcname.
C11_MethodQualification ==
    \A i \in 1..Len(Held) :
        LET e == Held[i]
            names == LexicalNames(FileOf(e.metadata.file_path).tree.body, None, TRUE)
        IN  e.metadata.type = <<"function">> =>
                \A ln \in names : ln[1] = e.metadata.line_number => ln[2] = e.metadata.name

\* The cut of text after its first k characters falls inside a word: the
\* characters on both sides of it are not spaces
MidWord(text, k) == k >= 1 /\ k < Len(text) /\ text[k] # " " /\ text[k + 1] # " "

\* C14: when the whitespace-collapsed text is longer than max_length, the
\* result has at most max_length characters and, if a space occurs before the
\* limit, it is the collapsed text cut (and stripped) at a point that does not
\* lie between two non-space characters.
C14_TruncatesAtWordBoundary ==
    LET collapsed == join(<<" ">>, split(trunc.text))
        n == trunc.max_length
    IN  (trunc.done /\ pc = "text" /\ Len(collapsed) > n) =>
            /\ Len(trunc.result) <= n
            /\ (\E i \in 1..n : collapsed[i] = " ") =>
                   \E k \in 0..n : /\ trunc.result = strip(slice_to(collapsed, k))
                                   /\ ~MidWord(collapsed, k)

\* C12: the i-th record of an upsert call carries the id and the metadata of
\* the i-th element of the flushed batch and the vector the provider computes
\* from that element's normalized content.
C12_OrderPreserved ==
    LET batch == obs.last_flush.batch
        vectors == obs.last_flush.vectors
    IN  obs.last_flush.outcome \in {"ok", "upsert_error"} =>
            /\ Len(vectors) = Len(batch)
            /\ \A i \in 1..Len(batch) :
                   /\ vectors[i].id = batch[i].id
                   /\ vectors[i].metadata = batch[i].metadata
                   /\ vectors[i].values =
                          Embedding(clean_and_truncate_text(batch[i].content,
                                                            DEFAULT_MAX_LENGTH))

\* An upsert of a full batch of three, one of whose contents the normalization
\* changes
C12_Witness ==
    /\ obs.last_flush.outcome = "ok"
    /\ Len(obs.last_flush.vectors) = 3
    /\ \E i \in 1..3 :
           clean_and_truncate_text(obs.last_flush.batch[i].content, DEFAULT_MAX_LENGTH)
               # obs.last_flush.batch[i].content

\* The path holds a substring of the ignore list
Ignored(path) == \E i \in 1..Len(IGNORE_PATTERNS) : Contains(path, IGNORE_PATTERNS[i])

\* A record that should never have been made: of a file whose path holds an
\* ignore-list substring or has no allowed extension
Unwanted(metadata) ==
    Ignored(metadata.file_path) \/ suffix(metadata.file_path) \notin SUPPORTED_EXTENSIONS

\* C13: no element is extracted from a file whose path holds an ignore-list
\* substring or lacks an allowed extension, and no embedding or upsert call
\* carries a record of such a file, whether main() found the file in the
\* directory, was given it as the root, or analyze_file was called on it.
C13_IgnoredNeverAnalyzed ==
    /\ \A i \in 1..Len(Held) : ~Unwanted(Held[i].metadata)
    /\ \A i \in 1..Len(obs.last_flush.batch) : ~Unwanted(obs.last_flush.batch[i].metadata)
    /\ \A i \in 1..Len(obs.last_flush.vectors) : ~Unwanted(obs.last_flush.vectors[i].metadata)
    /\ pc = "visit" => ~Ignored(analyzer.file_path) /\ suffix(analyzer.file_path) = <<".py">>
    /\ ( /\ pc \in {"loop", "client"} /\ file_obs.entered
         /\ Ignored(file_obs.path) \/ suffix(file_obs.path) # <<".py">> ) =>
           obs.created = file_obs.created0 /\ obs.embed_calls = file_obs.embed0

\* analyze_file called on the file under node_modules, then on a.py: four
\* elements, all of a.py
C13_Witness ==
    /\ pc = "client"
    /\ analyzed = << <<"proj", "/", "node_modules", "/", "x", ".py">>,
                     <<"proj", "/", "a", ".py">> >>
    /\ obs.created = 4
    /\ obs.upsert_calls > 0

RECURSIVE Definitions(_)
\* The class and function definitions below nodes, at any depth
Definitions(nodes) ==
    IF nodes = << >> THEN {}
    ELSE LET n == Head(nodes)
             here == IF n.node \in {"ClassDef", "FunctionDef"} THEN {n} ELSE {}
             below == IF "body" \in DOMAIN n THEN Definitions(n.body) ELSE {}
         IN  here \cup below \cup Definitions(Tail(nodes))

\* The element type of a definition
TypeOf(definition) == IF definition.node = "ClassDef" THEN <<"class">> ELSE <<"function">>

\* C15: when a file has been walked, every class and every function of it that
\* has no docstring has exactly one element, and the content of the element
\* holds the source text of the definition.
C15_SourceTextKept ==
    (Returned /\ ~file_obs.raised) =>
        \A d \in Definitions(FileOf(file_obs.path).tree.body) :
            LET es == {i \in 1..Len(Held) :
                          /\ Held[i].metadata.file_path = file_obs.path
                          /\ Held[i].metadata.line_number = LinenoStr(d)
                          /\ Held[i].metadata.type = TypeOf(d)}
            IN  d.doc = << >> =>
                    /\ Cardinality(es) = 1
                    /\ \A i \in es : Contains(Held[i].content, d.source)

\* C16: no embedding call and no upsert call carries more than batch_size
\* elements, and the pending buffer holds fewer than batch_size elements
\* whenever process_element or analyze_file has returned, also after failed
\* flushes and from one file to the next.
C16_BatchesBounded ==
    /\ Len(obs.last_flush.batch) <= analyzer.batch_size
    /\ Len(obs.last_flush.vectors) <= analyzer.batch_size
    /\ pc \in {"visit", "loop", "exited"} =>
           Len(analyzer.pending_elements) < analyzer.batch_size

\* C17: in a run whose embedding and upsert calls all return, the pending
\* buffer is empty whenever analyze_file has returned, and the report holds
\* every element that was extracted.
C17_RemainderFlushed ==
    obs.failed = {} =>
        /\ Returned => analyzer.pending_elements = << >>
        /\ exit_status = "ok" => Len(stdout[1]) = obs.created

\* C18: no element occurs twice in the result list, none is both in the result
\* list and in the pending buffer, and the result list followed by the pending
\* buffer lists elements extracted so far in the order of their extraction.
C18_OnceAndInOrder ==
    /\ \A i, j \in 1..Len(analyzer.elements) :
           i # j => analyzer.elements[i].obj # analyzer.elements[j].obj
    /\ Objs(analyzer.elements) \cap Objs(analyzer.pending_elements) = {}
    /\ \A i \in 1..Len(Held) : Held[i].obj \in 1..obs.created
    /\ \A i, j \in 1..Len(Held) : i < j => Held[i].obj < Held[j].obj

\* Results of two files and a pending buffer that a failed flush left behind
C18_Witness ==
    /\ Len(analyzer.elements) > 4
    /\ Len(analyzer.pending_elements) > 1
    /\ Objs(analyzer.pending_elements) \cap obs.failed # {}
    /\ Len(analyzed) > 1

\* C19: within a run total_processed never decreases, a flush whose embedding
\* or upsert call raised leaves it as it was, and it is the length of the
\* result list whenever process_batch has returned.
C19_TotalProcessed ==
    /\ [](analyzer.total_processed = Len(analyzer.elements))
    /\ [][run' = run =>
            /\ analyzer'.total_processed >= analyzer.total_processed
            /\ (FlushHappened /\ obs'.last_flush.outcome # "ok") =>
                   analyzer'.total_processed = analyzer.total_processed]_vars

\* A flush that went through after another had failed
C19_Witness ==
    /\ analyzer.total_processed > 3
    /\ obs.failed # {}
    /\ obs.last_flush.outcome = "ok"

\* C20: a run rejected for its argument count or for a path that is neither a
\* file nor a directory leaves the remote store as it found it: it creates no
\* index and makes no embedding or upsert call.
C20_RejectedRunTouchesNothing ==
    exit_status \in {"usage", "invalid_path"} =>
        /\ ExitCode(exit_status) = 1
        /\ store = store0
        /\ obs.create_calls = 0
        /\ obs.embed_calls = 0 /\ obs.upsert_calls = 0

====
